---- MODULE Spec2Model ----
(***************************************************************************)
(* Model of the Mixcloud show indexer (src/indexer): the paginated fetcher  *)
(* (fetcher.py), the categorization engine and show processor               *)
(* (processor.py) and the two operating modes of main.py with their index   *)
(* persistence.                                                             *)
(*                                                                          *)
(* Data representation.  A Python dict is a function whose domain is the    *)
(* set of keys that are present; d.get(k, v) is Get(d, k, v) and d[k] is    *)
(* only evaluated under the guard k \in DOMAIN d (KeyError otherwise).      *)
(* Titles and regex sources are sequences of one-character strings, tags    *)
(* are strings of length at most one, created_time strings are naturals in  *)
(* the order of the strings they stand for, 0 standing for "".              *)
(***************************************************************************)
EXTENDS Integers, Sequences, FiniteSets, TLC

VARIABLES
    mode,           \* "fetch" | "local" (main.py) | "call" (fetch_shows called directly)
    config,         \* the configuration file
    file,           \* the index file on disk
    catalog,        \* the remote catalog: a sequence of pages of summary keys
    limit,          \* --limit / limit argument; None when not given
    pc,             \* position of the run
    processor,      \* the DataProcessor (patterns, tag_mappings) once built
    existing_data,  \* perform_*: records loaded from the index file
    existing_ids,   \* fetch_shows: keys already indexed
    new_shows,      \* perform_fetch_and_index: records processed in this run
    url,            \* fetch_shows: number of the page to request, 0 when None
    shows,          \* fetch_shows: items of the page being iterated
    idx,            \* fetch_shows: position of the for loop in shows
    count,          \* fetch_shows: items yielded so far, as the code counts them
    raw_show,       \* the record the generator has just yielded
    via_detail,     \* TRUE when raw_show came from a successful detail request
    save_data,      \* save_index: the sorted records being written
    updated_count,  \* perform_local_update: the count it reports
    exit_code,      \* return value of main; None while running
    trace,          \* observations of the run (requests, yields, reads, writes)
    call            \* the DataProcessor method call made last, when a method is
                    \* called on its own: its argument and what it returned

vars == <<mode, config, file, catalog, limit, pc, processor, existing_data,
          existing_ids, new_shows, url, shows, idx, count, raw_show,
          via_detail, save_data, updated_count, exit_code, trace, call>>

None   == "None"    \* Python None where a string is expected
NoCode == -1        \* exit_code while main has not returned
NoLimit == -1       \* limit is None

----------------------------------------------------------------------------
(* constants.py *)

DEFAULT_CATEGORY      == "Sans categorie"
EXIT_SUCCESS          == 0
EXIT_CONFIG_ERROR     == 1
EXIT_FETCH_ERROR      == 2
EXIT_PROCESSING_ERROR == 3
EXIT_IO_ERROR         == 4

----------------------------------------------------------------------------
(* Bounds of the model *)

MaxPages    == 2    \* listing pages of the remote catalog
MaxPageLen  == 2    \* summary items on one page
MaxLimit    == 2    \* largest limit argument
MaxIndexLen == 2    \* records in the index file at run start
MaxTags     == 2    \* tags in a list passed to normalize_tags
MaxMappings == 2    \* entries of tag_mappings
MaxRules    == 2    \* rules in the "shows" array of the configuration
MaxTitleLen == 2    \* characters of a title passed to get_category_info

----------------------------------------------------------------------------
(* Python built-ins *)

Get(d, k, dflt) == IF k \in DOMAIN d THEN d[k] ELSE dflt

Range(s) == {s[i] : i \in DOMAIN s}

\* str.lower() on the characters of the model's alphabet
CharLower(c) ==
    CASE c = "P" -> "p"
      [] c = "J" -> "j"
      [] OTHER   -> c

\* str.lower() on tags
TagLower(t) ==
    CASE t = "A" -> "a"
      [] t = "B" -> "b"
      [] t = "C" -> "c"
      [] OTHER   -> t

\* code point order of the tags: "" < "A" < "B" < "C" < "a" < "b" < "c"
TagCode(t) ==
    CASE t = ""  -> 0
      [] t = "A" -> 65
      [] t = "B" -> 66
      [] t = "C" -> 67
      [] t = "a" -> 97
      [] t = "b" -> 98
      [] t = "c" -> 99

\* sorted(list(S)) for a set of tags
RECURSIVE SortedTags(_)
SortedTags(S) ==
    IF S = {} THEN <<>>
    ELSE LET m == CHOOSE t \in S : \A u \in S : TagCode(t) <= TagCode(u)
         IN  <<m>> \o SortedTags(S \ {m})

\* str.strip() on a title
RECURSIVE LStrip(_)
LStrip(s) == IF s # <<>> /\ Head(s) = " " THEN LStrip(Tail(s)) ELSE s

RECURSIVE RStrip(_)
RStrip(s) ==
    IF s # <<>> /\ s[Len(s)] = " " THEN RStrip(SubSeq(s, 1, Len(s) - 1)) ELSE s

Strip(s) == RStrip(LStrip(s))

\* re.compile(regex_str, re.IGNORECASE) raises re.error: in the model's
\* alphabet the only malformed sources are those with an unclosed "("
CompileFails(regex_str) == "(" \in Range(regex_str)

\* pattern.regex.search(title) for a literal pattern compiled with IGNORECASE
Search(regex, title) ==
    \E i \in 1..(Len(title) - Len(regex) + 1) :
        \A j \in 1..Len(regex) : CharLower(title[i + j - 1]) = CharLower(regex[j])

----------------------------------------------------------------------------
(* processor.py: DataProcessor *)

\* _load_config raises ConfigError
LoadConfigFails(cfg) == cfg.kind # "ok"

\* _compile_patterns raises ConfigError: a rule that has a name and a regex
\* and whose regex does not compile
CompileFailsAt(sc) ==
    /\ Get(sc, "name", "") # ""
    /\ Get(sc, "regex", <<>>) # <<>>
    /\ CompileFails(sc.regex)

CompilePatternsFails(cfg) == \E i \in DOMAIN cfg.shows : CompileFailsAt(cfg.shows[i])

\* _compile_patterns: rules without a name or a regex are skipped
RECURSIVE CompilePatterns(_)
CompilePatterns(show_configs) ==
    IF show_configs = <<>> THEN <<>>
    ELSE LET sc == Head(show_configs)
             rest == CompilePatterns(Tail(show_configs))
         IN  IF Get(sc, "name", "") = "" \/ Get(sc, "regex", <<>>) = <<>>
             THEN rest
             ELSE <<[name |-> sc.name, regex |-> sc.regex,
                     extra_tags |-> Get(sc, "extra_tags", <<>>)]>> \o rest

\* the configuration is taken as it is, whatever it holds
ProcessorInitLenient(cfg) == FALSE

\* DataProcessor.__init__ raises ConfigError
ProcessorInitFails(cfg) == LoadConfigFails(cfg) \/ CompilePatternsFails(cfg)

\* DataProcessor.__init__
NewProcessor(cfg) ==
    [patterns |-> CompilePatterns(cfg.shows), tag_mappings |-> cfg.tag_mappings]

\* the last pattern found in the title instead of the first
LastMatch(patterns, title) ==
    LET found == {i \in DOMAIN patterns : Search(patterns[i].regex, title)}
    IN  IF found = {} THEN <<DEFAULT_CATEGORY, <<>> >>
        ELSE LET i == CHOOSE i \in found : \A j \in found : j <= i
             IN  <<patterns[i].name, patterns[i].extra_tags>>

\* get_category_info: the first pattern found in the title
RECURSIVE FirstMatch(_, _)
FirstMatch(patterns, title) ==
    IF patterns = <<>> THEN <<DEFAULT_CATEGORY, <<>> >>
    ELSE IF Search(Head(patterns).regex, title)
         THEN <<Head(patterns).name, Head(patterns).extra_tags>>
         ELSE FirstMatch(Tail(patterns), title)

get_category_info(p, title) ==
    IF title = <<>> THEN <<DEFAULT_CATEGORY, <<>> >>
    ELSE FirstMatch(p.patterns, title)

\* normalize_tag: tag_mappings is a dict, iterated in insertion order
RECURSIVE LookupTag(_, _)
LookupTag(mappings, tag) ==
    IF mappings = <<>> THEN tag
    ELSE IF TagLower(Head(mappings)[1]) = TagLower(tag) THEN Head(mappings)[2]
         ELSE LookupTag(Tail(mappings), tag)

normalize_tag(p, tag) == IF tag = "" THEN tag ELSE LookupTag(p.tag_mappings, tag)

\* the normalized tags as a list, neither deduplicated nor sorted
normalize_tags_list(p, tags) == [i \in DOMAIN tags |-> normalize_tag(p, tags[i])]

\* normalize_tags: the set of the normalized tags, sorted
normalize_tags(p, tags) == SortedTags({normalize_tag(p, tags[i]) : i \in DOMAIN tags})

\* _validate_raw_show raises ValidationError
ValidateFails(raw_data) == \E f \in {"key", "name", "slug", "url"} : f \notin DOMAIN raw_data

\* _normalize_text: drop the non-word characters, lower the rest
RECURSIVE NormalizeText(_)
NormalizeText(text) ==
    IF text = <<>> THEN <<>>
    ELSE IF Head(text) \in {" ", "("} THEN NormalizeText(Tail(text))
         ELSE <<CharLower(Head(text))>> \o NormalizeText(Tail(text))

\* the names of the tag objects of a raw record that carry a name
RECURSIVE TagNames(_)
TagNames(raw_tags) ==
    IF raw_tags = <<>> THEN <<>>
    ELSE IF "name" \in DOMAIN Head(raw_tags)
         THEN <<Head(raw_tags).name>> \o TagNames(Tail(raw_tags))
         ELSE TagNames(Tail(raw_tags))

\* _extract_picture_key: a URL is the sequence of its "/"-separated segments;
\* the key is what follows the size segment after "unsafe"
RECURSIVE AfterUnsafe(_)
AfterUnsafe(segs) ==
    IF Len(segs) < 2 THEN <<>>
    ELSE IF Head(segs) = "unsafe" THEN Tail(Tail(segs))
         ELSE AfterUnsafe(Tail(segs))

RECURSIVE FirstPictureKey(_, _)
FirstPictureKey(pictures, sizes) ==
    IF sizes = <<>> THEN <<>>
    ELSE IF Head(sizes) \in DOMAIN pictures /\ AfterUnsafe(pictures[Head(sizes)]) # <<>>
         THEN AfterUnsafe(pictures[Head(sizes)])
         ELSE FirstPictureKey(pictures, Tail(sizes))

extract_picture_key(pictures) ==
    FirstPictureKey(pictures, <<"large", "medium", "small", "thumbnail">>)

\* process_show raises ProcessingError
ProcessShowFails(raw_data) == ValidateFails(raw_data)

\* process_show, for a record that passes validation
process_show(p, raw_data) ==
    LET title == Strip(raw_data.name)
        info  == get_category_info(p, title)
        all_tags == normalize_tags(p, TagNames(Get(raw_data, "tags", <<>>)) \o info[2])
        processed ==
            [name         |-> title,
             slug         |-> raw_data.slug,
             created_time |-> Get(raw_data, "created_time", 0),
             picture_key  |-> extract_picture_key(Get(raw_data, "pictures", <<>>)),
             tags         |-> all_tags,
             category     |-> info[1],
             audio_length |-> Get(raw_data, "audio_length", 0)]
        description == Get(raw_data, "description", <<>>)
    IN  IF description # <<>> /\ NormalizeText(title) # NormalizeText(description)
        THEN processed @@ ("description" :> description)
        ELSE processed

----------------------------------------------------------------------------
(* The remote catalog: three shows, each with the summary item its listing  *)
(* page carries; the detail endpoint returns the same record with its       *)
(* description.                                                             *)

Keys == {"k1", "k2", "k3"}

PictureUrl == <<"https:", "", "thumbnailer.mixcloud.com", "unsafe", "300x300",
                "extaudio", "abc", "uuid.jpg">>

Summary(k) ==
    CASE k = "k1" -> [key |-> "k1", name |-> <<" ", "P", "j">>, slug |-> "s1",
                      url |-> "u1", created_time |-> 2,
                      tags |-> <<[name |-> "b"], [url |-> "t"]>>,
                      pictures |-> [large |-> PictureUrl], audio_length |-> 60]
      [] k = "k2" -> [key |-> "k2", name |-> <<"j">>, slug |-> "s2", url |-> "u2",
                      tags |-> <<[name |-> "A"]>>]
      [] k = "k3" -> [key |-> "k3", name |-> <<"P">>, url |-> "u3",
                      created_time |-> 1]

Description(k) ==
    CASE k = "k1" -> <<"p", " ", "j">>
      [] k = "k2" -> <<"P">>
      [] k = "k3" -> <<>>

Detail(k) == Summary(k) @@ ("description" :> Description(k))

RECURSIVE Flat(_)
Flat(pages) == IF pages = <<>> THEN <<>> ELSE Head(pages) \o Flat(Tail(pages))

Distinct(s) == \A i, j \in DOMAIN s : i # j => s[i] # s[j]

Pages == UNION {[1..n -> Keys] : n \in 0..MaxPageLen}

\* catalogs of one to MaxPages pages in which no key occurs twice
Catalogs == {c \in UNION {[1..m -> Pages] : m \in 1..MaxPages} : Distinct(Flat(c))}

Limits == {NoLimit} \cup (0..MaxLimit)

\* the ways a listing-page request fails (fetcher.py 129-156)
PageFailures == {"timeout", "http_error", "transport", "bad_json", "not_dict",
                 "data_not_list"}

----------------------------------------------------------------------------
(* Configuration files *)

RulePunk   == [name |-> "Punk", regex |-> <<"p">>, extra_tags |-> <<"a">>]
RuleJazz   == [name |-> "Jazz", regex |-> <<"j">>]
RuleNoName == [regex |-> <<"j">>, extra_tags |-> <<"c">>]
RuleBad    == [name |-> "Bad", regex |-> <<"(", "p">>]

CfgMain    == [kind |-> "ok", shows |-> <<RulePunk, RuleJazz>>,
               tag_mappings |-> << <<"b", "B">> >>]
CfgChain   == [kind |-> "ok", shows |-> <<RuleNoName, RuleJazz, RulePunk>>,
               tag_mappings |-> << <<"a", "B">>, <<"b", "C">> >>]
CfgBadRule == [kind |-> "ok", shows |-> <<RulePunk, RuleBad>>,
               tag_mappings |-> <<>>]

CfgBroken(kind) == [kind |-> kind, shows |-> <<>>, tag_mappings |-> <<>>]

Configs == {CfgMain, CfgChain, CfgBadRule}
           \cup {CfgBroken(k) : k \in {"absent", "malformed", "not_dict",
                                       "no_shows", "shows_not_list"}}

----------------------------------------------------------------------------
(* Index files *)

\* a record as an earlier fetch-mode run persisted it
Persisted(k) == process_show(NewProcessor(CfgMain), Detail(k))

\* a record of foreign origin that carries the key of a show
Keyed(k, t) == [key |-> k, name |-> <<"j">>, slug |-> k, created_time |-> t,
                tags |-> <<>>, category |-> "Jazz"]

\* the same without a created_time
KeyedNoTime(k) == [key |-> k, name |-> <<"j">>, slug |-> k, tags |-> <<>>,
                   category |-> "Jazz"]

FetchRecords == {Persisted("k1"), Keyed("k1", 3), KeyedNoTime("k2")}

\* a stored record; t = 0 stands for a record without created_time
LocalRecord(n, t, ts, c) ==
    IF t = 0
    THEN [name |-> n, slug |-> "s", tags |-> ts, category |-> c]
    ELSE [name |-> n, slug |-> "s", created_time |-> t, tags |-> ts, category |-> c]

LocalRecords ==
    {LocalRecord(n, t, ts, c) :
        n \in {<<>>, <<"P", "j">>}, t \in {0, 1},
        ts \in {<<>>, <<"a", "B">>, <<"b">>}, c \in {"Punk", DEFAULT_CATEGORY}}

ListsOf(S) == UNION {[1..n -> S] : n \in 0..MaxIndexLen}

\* by: "input" for a file the run found, "run" for one save_index wrote
ListFile(data) == [kind |-> "list", data |-> data, by |-> "input"]
OtherFile(kind) == [kind |-> kind, data |-> <<>>, by |-> "input"]

\* files that load as an empty index: absent, text that is not JSON,
\* unreadable, JSON that is not an array
EmptyFiles == {OtherFile(k) : k \in {"absent", "malformed", "unreadable", "not_list"}}

\* a file whose bytes are not UTF-8 text
UndecodableFile == OtherFile("undecodable")

FetchFiles == EmptyFiles \cup {UndecodableFile}
              \cup {ListFile(d) : d \in ListsOf(FetchRecords)}
LocalFiles == {OtherFile("absent"), UndecodableFile}
              \cup {ListFile(d) : d \in ListsOf(LocalRecords)}

----------------------------------------------------------------------------
(* main.py: load_existing_index, save_index, the local update loop *)

\* load_existing_index 73-92 catches json.JSONDecodeError and IOError only:
\* the UnicodeDecodeError that json.load raises while reading a file opened
\* with encoding="utf-8" whose bytes are not UTF-8 leaves the function
LoadIndexFails(f) == f.kind = "undecodable"

\* load_existing_index: anything but a JSON array loads as the empty index
load_existing_index(f) == IF f.kind = "list" THEN f.data ELSE <<>>

SortKey(x) == Get(x, "created_time", 0)

\* sorted(data, key=created_time, reverse=True): stable, equal keys keep
\* their input order
RECURSIVE InsertDesc(_, _)
InsertDesc(sorted, x) ==
    IF sorted = <<>> THEN <<x>>
    ELSE IF SortKey(Head(sorted)) >= SortKey(x)
         THEN <<Head(sorted)>> \o InsertDesc(Tail(sorted), x)
         ELSE <<x>> \o sorted

\* the sort left out: the records are written in the order they come
SortedDescNot(data) == data

RECURSIVE SortedDesc(_)
SortedDesc(data) ==
    IF data = <<>> THEN <<>>
    ELSE InsertDesc(SortedDesc(SubSeq(data, 1, Len(data) - 1)), data[Len(data)])

SetItem(d, k, v) == [x \in DOMAIN d \cup {k} |-> IF x = k THEN v ELSE d[x]]

\* the normalized list compared with the stored list as it is
TagsChangedRaw(new_tags, current_tags) == new_tags # current_tags

\* perform_local_update 172: the tags count as changed when the normalized
\* list differs from the stored tags, sorted and deduplicated
TagsChanged(new_tags, current_tags) == new_tags # SortedTags(Range(current_tags))

\* perform_local_update, body of the loop over existing_data (152-177):
\* the record as the loop leaves it and what it adds to updated_count
UpdateShow(p, show) ==
    LET old_category == Get(show, "category", None)
        info         == get_category_info(p, Get(show, "name", <<>>))
        cat_changed  == old_category # info[1]
        show1        == IF cat_changed THEN SetItem(show, "category", info[1]) ELSE show
        current_tags == Get(show, "tags", <<>>)
        new_tags     == normalize_tags(p, current_tags \o info[2])
        tags_changed == TagsChanged(new_tags, current_tags)
        show2        == IF tags_changed THEN SetItem(show1, "tags", new_tags) ELSE show1
    IN  [show |-> show2,
         n    |-> (IF cat_changed THEN 1 ELSE 0) + (IF tags_changed THEN 1 ELSE 0)]

RECURSIVE SumN(_)
SumN(s) == IF s = <<>> THEN 0 ELSE Head(s) + SumN(Tail(s))

LocalUpdateLoop(p, data) ==
    [data  |-> [i \in DOMAIN data |-> UpdateShow(p, data[i]).show],
     count |-> SumN([i \in DOMAIN data |-> UpdateShow(p, data[i]).n])]

----------------------------------------------------------------------------
(* State *)

NoProcessor == [patterns |-> <<>>, tag_mappings |-> <<>>]
NoShow      == <<>>
NoCall      == [op |-> None]

\* what an observer of one run sees
NewTrace(f) ==
    [start_file |-> f,       \* the index file when the run started
     reads      |-> 0,       \* reads of the index file
     writes     |-> 0,       \* completed writes of the index file
     pages      |-> 0,       \* listing-page requests issued
     details    |-> 0,       \* detail requests issued
     yielded    |-> <<>>,    \* summary keys of the items yielded, in order
     fallbacks  |-> 0,       \* detail requests that failed
     indexed    |-> 0,       \* records process_show returned ("Indexed: ...")
     stop       |-> None,    \* why fetch_shows ended
     failure    |-> None,    \* class of the failure that ended the run
     cause      |-> None,    \* the failure itself
     reported   |-> -1,      \* "Updated N shows"; 0 for "No updates needed"
     changed    |-> -1,      \* records the local update loop left different
     last_req   |-> None,    \* the last request issued: "page", "detail" (it
                             \* succeeded) or "fallback" (a detail request
                             \* that failed)
     prev_req   |-> None,    \* the request issued before the last one
     since      |-> 0,       \* time.sleep calls since the last request
     gap        |-> -1]      \* time.sleep calls between prev_req and last_req

locals == <<processor, existing_data, existing_ids, new_shows, url, shows, idx,
            count, raw_show, via_detail, save_data, updated_count>>
\* what no step of main or fetch_shows assigns
inputs == <<mode, config, catalog, limit, call>>

LocalsInit ==
    /\ processor = NoProcessor
    /\ existing_data = <<>>
    /\ existing_ids = {}
    /\ new_shows = <<>>
    /\ url = 0
    /\ shows = <<>>
    /\ idx = 0
    /\ count = 0
    /\ raw_show = NoShow
    /\ via_detail = FALSE
    /\ save_data = <<>>
    /\ updated_count = 0

\* the process ends: main returns code, its memory is gone
Exit(code, tr) ==
    /\ pc' = "done"
    /\ exit_code' = code
    /\ trace' = tr
    /\ processor' = NoProcessor
    /\ existing_data' = <<>>
    /\ existing_ids' = {}
    /\ new_shows' = <<>>
    /\ url' = 0
    /\ shows' = <<>>
    /\ idx' = 0
    /\ count' = 0
    /\ raw_show' = NoShow
    /\ via_detail' = FALSE
    /\ save_data' = <<>>
    /\ updated_count' = 0

Failed(tr, class, what) == [tr EXCEPT !.failure = class, !.cause = what]

\* the index file is loaded a second time to collect the keys
ReadIndexTwice(tr) == [tr EXCEPT !.reads = @ + 2]

\* load_existing_index(output_path), main.py 144 and 211: the one place of
\* each mode that opens the index file for reading
ReadIndex(tr) == [tr EXCEPT !.reads = @ + 1]

\* time.sleep(self.rate_limit_delay), fetcher.py 188 and 206
Sleep(tr) == [tr EXCEPT !.since = @ + 1]

\* self.session.get(...), fetcher.py 122 and 179: a request is issued
Request(tr, kind) ==
    [tr EXCEPT !.prev_req = tr.last_req,
               !.last_req = kind,
               !.gap      = IF tr.last_req = None THEN -1 ELSE tr.since,
               !.since    = 0]

\* main.py, one invocation of the indexer
InitRun ==
    /\ mode \in {"fetch", "local"}
    /\ config \in Configs
    /\ file \in (IF mode = "fetch" THEN FetchFiles ELSE LocalFiles)
    /\ catalog \in (IF mode = "fetch" THEN Catalogs ELSE {<< <<>> >>})
    /\ limit \in (IF mode = "fetch" THEN Limits ELSE {NoLimit})
    /\ pc = "start"
    /\ LocalsInit
    /\ exit_code = NoCode
    /\ trace = NewTrace(file)
    /\ call = NoCall

----------------------------------------------------------------------------
(* main.py: main, perform_local_update, save_index *)

\* main 338-350: the configuration file must exist; then the mode is chosen
MainStart ==
    /\ pc = "start"
    /\ IF config.kind = "absent"
       THEN Exit(EXIT_CONFIG_ERROR, Failed(trace, "config", "config file not found"))
       ELSE /\ pc' = IF mode = "local" THEN "local_init" ELSE "fetch_setup"
            /\ UNCHANGED <<locals, exit_code, trace>>
    /\ UNCHANGED <<inputs, file>>

\* main 344-346 and 352-354: in local mode the ConfigError of DataProcessor
\* is caught as an IndexerError
MainLocalInit ==
    /\ pc = "local_init"
    /\ IF ProcessorInitFails(config)
       THEN Exit(EXIT_PROCESSING_ERROR, Failed(trace, "config", "ConfigError"))
       ELSE /\ processor' = NewProcessor(config)
            /\ pc' = "local_update"
            /\ UNCHANGED <<existing_data, existing_ids, new_shows, url, shows, idx,
                           count, raw_show, via_detail, save_data, updated_count,
                           exit_code, trace>>
    /\ UNCHANGED <<inputs, file>>

\* perform_local_update 142-190, up to the call of save_index
PerformLocalUpdate ==
    /\ pc = "local_update"
    /\ LET data == load_existing_index(file)
           res  == LocalUpdateLoop(processor, data)
           tr   == ReadIndex(trace)
       IN  IF LoadIndexFails(file)
           THEN \* main 358-360
                Exit(EXIT_PROCESSING_ERROR, Failed(tr, "other", "UnicodeDecodeError"))
           ELSE IF data = <<>>
           THEN Exit(EXIT_SUCCESS, tr)
           ELSE LET tr2 == [tr EXCEPT !.reported = res.count,
                               !.changed = Cardinality({i \in DOMAIN data :
                                                          res.data[i] # data[i]})]
                IN  IF res.count > 0
                    THEN /\ existing_data' = res.data
                         /\ updated_count' = res.count
                         /\ save_data' = res.data
                         /\ pc' = "save"
                         /\ trace' = tr2
                         /\ UNCHANGED <<processor, existing_ids, new_shows, url, shows,
                                        idx, count, raw_show, via_detail, exit_code>>
                    ELSE Exit(EXIT_SUCCESS, tr2)
    /\ UNCHANGED <<inputs, file>>

\* save_index 107-118: sort, create the parent directory, open for writing;
\* open(..., "w") truncates the file
SaveIndexOpen ==
    /\ pc = "save"
    /\ save_data' = SortedDesc(save_data)
    /\ file' = [kind |-> "partial", data |-> <<>>, by |-> "run"]
    /\ pc' = "save_dump"
    /\ UNCHANGED <<inputs, processor, existing_data, existing_ids, new_shows, url,
                   shows, idx, count, raw_show, via_detail, updated_count,
                   exit_code, trace>>

\* save_index 115-118 raises IOError before the file is opened; the callers
\* return EXIT_IO_ERROR (185-186, 247-248)
SaveIndexOpenFails ==
    /\ pc = "save"
    /\ Exit(EXIT_IO_ERROR, Failed(trace, "io", "mkdir or open"))
    /\ UNCHANGED <<inputs, file>>

\* save_index 119-121: json.dump writes the array and the file is closed
SaveIndexDump ==
    /\ pc = "save_dump"
    /\ file' = [kind |-> "list", data |-> save_data, by |-> "run"]
    /\ Exit(EXIT_SUCCESS, [trace EXCEPT !.writes = @ + 1])
    /\ UNCHANGED inputs

\* save_index 119 and 123-126: json.dump raises IOError part-way
SaveIndexDumpFails ==
    /\ pc = "save_dump"
    /\ Exit(EXIT_IO_ERROR, Failed(trace, "io", "write"))
    /\ UNCHANGED <<inputs, file>>

\* main 355-357: KeyboardInterrupt anywhere inside the try block
Interrupt ==
    /\ mode # "call"
    /\ pc \notin {"start", "done"}
    /\ Exit(EXIT_SUCCESS, Failed(trace, "interrupt", "KeyboardInterrupt"))
    /\ UNCHANGED <<inputs, file>>

\* the same command is run again on the files the last run left
Restart ==
    /\ mode # "call"
    /\ pc = "done"
    /\ pc' = "start"
    /\ exit_code' = NoCode
    /\ trace' = NewTrace(file)
    /\ UNCHANGED <<inputs, file, locals>>

----------------------------------------------------------------------------
(* main.py: perform_fetch_and_index *)

\* perform_fetch_and_index 210-222: load the index, collect the keys of its
\* records (a record without "key" raises KeyError, which main 358-360
\* turns into EXIT_PROCESSING_ERROR, as it does an exception that leaves
\* load_existing_index), build the processor and the fetcher
PerformFetchSetup ==
    /\ pc = "fetch_setup"
    /\ LET data == load_existing_index(file)
           tr   == ReadIndex(trace)
       IN  IF LoadIndexFails(file)
           THEN Exit(EXIT_PROCESSING_ERROR, Failed(tr, "other", "UnicodeDecodeError"))
           ELSE IF \E i \in DOMAIN data : "key" \notin DOMAIN data[i]
           THEN Exit(EXIT_PROCESSING_ERROR, Failed(tr, "other", "KeyError"))
           ELSE IF ProcessorInitFails(config)
           THEN Exit(EXIT_CONFIG_ERROR, Failed(tr, "config", "ConfigError"))
           ELSE /\ existing_data' = data
                /\ existing_ids' = {data[i].key : i \in DOMAIN data}
                /\ processor' = NewProcessor(config)
                /\ url' = 1
                /\ pc' = "page"
                /\ trace' = tr
                /\ UNCHANGED <<new_shows, shows, idx, count, raw_show, via_detail,
                               save_data, updated_count, exit_code>>
    /\ UNCHANGED <<inputs, file>>

\* the index is saved whether or not the run processed a record
AnyNewAlways(new) == TRUE

\* perform_fetch_and_index 241: "if new_shows"
AnyNew(new) == new # <<>>

\* the index is rewritten from the new records alone
AllShowsNewOnly(new, existing) == new

\* perform_fetch_and_index 243: all_shows = new_shows + existing_data
AllShows(new, existing) == new \o existing

\* what follows the for loop over fetch_shows when the generator returns:
\* perform_fetch_and_index 240-252 up to the call of save_index; a direct
\* caller of fetch_shows just sees the iteration end
GenReturn(tr) ==
    IF mode = "call"
    THEN /\ pc' = "returned"
         /\ trace' = tr
         /\ UNCHANGED <<locals, exit_code>>
    ELSE IF AnyNew(new_shows)
    THEN /\ save_data' = AllShows(new_shows, existing_data)
         /\ pc' = "save"
         /\ trace' = tr
         /\ UNCHANGED <<processor, existing_data, existing_ids, new_shows, url,
                        shows, idx, count, raw_show, via_detail, updated_count,
                        exit_code>>
    ELSE Exit(EXIT_SUCCESS, tr)

\* the FetchError swallowed: what was processed so far is saved
GenRaiseSaves(tr) == GenReturn(tr)

\* fetch_shows raises FetchError: perform_fetch_and_index 236-238 returns
\* EXIT_FETCH_ERROR; a direct caller sees the exception
GenRaise(tr) ==
    IF mode = "call"
    THEN /\ pc' = "raised"
         /\ trace' = tr
         /\ UNCHANGED <<locals, exit_code>>
    ELSE Exit(EXIT_FETCH_ERROR, tr)

----------------------------------------------------------------------------
(* fetcher.py: MixcloudFetcher.fetch_shows *)

\* the items of page n iterated from the last to the first
PageItemsReversed(n) ==
    [i \in DOMAIN catalog[n] |-> Summary(catalog[n][Len(catalog[n]) + 1 - i])]

\* the summary items of page n of the catalog
PageItems(n) == [i \in DOMAIN catalog[n] |-> Summary(catalog[n][i])]

\* paging.next of page n: the number of the next page, 0 when absent
NextUrl(n) == IF n < Len(catalog) THEN n + 1 ELSE 0

\* the limit check off by one: one item too many
LimitReachedLate(lim, cnt) == lim # NoLimit /\ cnt > lim

\* fetch_shows 162: the limit check at the head of the for loop
LimitReached(lim, cnt) == lim # NoLimit /\ cnt >= lim

\* the incremental-update check left out
IsKnownNever(show, ids) == FALSE

\* fetch_shows 167-168: the incremental-update check
IsKnown(show, ids) == show.key \in ids

\* fetch_shows 176-188: the detail request succeeds, the detail record is yielded
DetailSucceeds(show) ==
    /\ raw_show' = Detail(show.key)
    /\ via_detail' = TRUE
    /\ pc' = "yielded"
    /\ trace' = [Request(trace, "detail") EXCEPT
                     !.details = @ + 1, !.yielded = Append(@, show.key)]
    /\ UNCHANGED <<processor, existing_data, existing_ids, new_shows, url, shows,
                   idx, count, save_data, updated_count, exit_code>>

\* a failed detail request is repeated until it succeeds
DetailFailsRetries(show) ==
    /\ via_detail' = ~via_detail
    /\ UNCHANGED <<processor, existing_data, existing_ids, new_shows, url, shows,
                   idx, count, raw_show, save_data, updated_count, exit_code, pc,
                   trace>>

\* a failed detail request drops the item instead of yielding the summary
DetailFailsSkips(show) ==
    /\ idx' = idx + 1
    /\ pc' = "item"
    /\ trace' = [Request(trace, "fallback") EXCEPT
                     !.details = @ + 1, !.fallbacks = @ + 1]
    /\ UNCHANGED <<processor, existing_data, existing_ids, new_shows, url, shows,
                   count, raw_show, via_detail, save_data, updated_count, exit_code>>

\* fetch_shows 190-194: the detail request fails, the summary item is yielded
DetailFails(show) ==
    /\ raw_show' = show
    /\ via_detail' = FALSE
    /\ pc' = "yielded"
    /\ trace' = [Request(trace, "fallback") EXCEPT
                     !.details = @ + 1, !.fallbacks = @ + 1,
                     !.yielded = Append(@, show.key)]
    /\ UNCHANGED <<processor, existing_data, existing_ids, new_shows, url, shows,
                   idx, count, save_data, updated_count, exit_code>>

\* fetch_shows 117-158: request the page at url and validate the body
FetchPage ==
    /\ pc = "page"
    /\ \/ /\ shows' = PageItems(url)
          /\ idx' = 1
          /\ pc' = "item"
          /\ trace' = [Request(trace, "page") EXCEPT !.pages = @ + 1]
          /\ UNCHANGED <<processor, existing_data, existing_ids, new_shows, url,
                         count, raw_show, via_detail, save_data, updated_count,
                         exit_code>>
       \/ \E f \in PageFailures :
             GenRaise(Failed([Request(trace, "page") EXCEPT
                                 !.pages = @ + 1, !.stop = "error"],
                             "fetch", f))
    /\ UNCHANGED <<inputs, file>>

\* fetch_shows 160-206: one step of the for loop up to its yield, or the
\* pagination at the end of the page
FetchItem ==
    /\ pc = "item"
    /\ IF idx > Len(shows)
       THEN \* 198-206: follow paging.next, sleeping before the next request
            IF NextUrl(url) # 0
            THEN /\ url' = NextUrl(url)
                 /\ pc' = "page"
                 /\ trace' = Sleep(trace)
                 /\ UNCHANGED <<processor, existing_data, existing_ids, new_shows,
                                shows, idx, count, raw_show, via_detail, save_data,
                                updated_count, exit_code>>
            ELSE GenReturn([trace EXCEPT !.stop = "exhausted"])
       ELSE LET show == shows[idx] IN
            IF LimitReached(limit, count)
            THEN GenReturn([trace EXCEPT !.stop = "limit"])
            ELSE IF IsKnown(show, existing_ids)
            THEN GenReturn([trace EXCEPT !.stop = "known"])
            ELSE \* 175-194: detail request, or the summary as fallback
                 DetailSucceeds(show) \/ DetailFails(show)
    /\ UNCHANGED <<inputs, file>>

\* fetch_shows 187-196: the generator resumes after its yield; after the
\* yield of a detail record it sleeps (188), after the yield of a summary
\* item (194) it does not
GenResume(tr) ==
    /\ trace' = IF via_detail THEN Sleep(tr) ELSE tr
    /\ count' = count + 1
    /\ idx' = idx + 1
    /\ raw_show' = NoShow
    /\ via_detail' = FALSE
    /\ pc' = "item"

\* a ProcessingError throws away what the run had processed before it
CollectOrReset(new, p, raw) ==
    IF ProcessShowFails(raw) THEN <<>> ELSE Append(new, process_show(p, raw))

\* perform_fetch_and_index 227-234: the processed record is appended to
\* new_shows; a ProcessingError is logged and the loop continues
Collect(new, p, raw) ==
    IF ProcessShowFails(raw) THEN new ELSE Append(new, process_show(p, raw))

\* perform_fetch_and_index 226-234: the body of the loop for one yielded
\* record, then the generator is resumed
MainLoopBody ==
    /\ pc = "yielded"
    /\ mode = "fetch"
    /\ new_shows' = Collect(new_shows, processor, raw_show)
    /\ GenResume(IF ProcessShowFails(raw_show) THEN trace
                 ELSE [trace EXCEPT !.indexed = @ + 1])
    /\ UNCHANGED <<inputs, file, processor, existing_data, existing_ids, url, shows,
                   save_data, updated_count, exit_code>>

\* a direct caller of fetch_shows takes the yielded record and asks for the next
Drive ==
    /\ pc = "yielded"
    /\ mode = "call"
    /\ GenResume(trace)
    /\ UNCHANGED <<inputs, file, processor, existing_data, existing_ids, new_shows,
                   url, shows, save_data, updated_count, exit_code>>

\* fetch_shows(limit, existing_ids) called on its own, 107-113
InitCall ==
    /\ mode = "call"
    /\ config = CfgMain
    /\ file = OtherFile("absent")
    /\ catalog \in Catalogs
    /\ limit \in Limits
    /\ existing_ids \in SUBSET Keys
    /\ processor = NoProcessor
    /\ existing_data = <<>>
    /\ new_shows = <<>>
    /\ url = 1
    /\ shows = <<>>
    /\ idx = 0
    /\ count = 0
    /\ raw_show = NoShow
    /\ via_detail = FALSE
    /\ save_data = <<>>
    /\ updated_count = 0
    /\ pc = "page"
    /\ exit_code = NoCode
    /\ trace = NewTrace(file)
    /\ call = NoCall

----------------------------------------------------------------------------
(* processor.py: the methods of a DataProcessor called on their own *)

AllTags == {"", "A", "B", "C", "a", "b", "c"}

TagLists == UNION {[1..n -> AllTags] : n \in 0..MaxTags}

\* tag_mappings: a JSON object, so no key occurs twice; a value may be any
\* string, the key of another entry included
MappingKeys   == {"a", "A", "b", "B"}
MappingValues == {"", "B", "C", "a", "b"}

TagTables ==
    {t \in UNION {[1..n -> MappingKeys \X MappingValues] : n \in 0..MaxMappings} :
        \A i, j \in DOMAIN t : i # j => t[i][1] # t[j][1]}

RuleNoRegex == [name |-> "Rock", extra_tags |-> <<"c">>]
RuleSpace   == [name |-> "Talk", regex |-> <<" ">>, extra_tags |-> <<"b", "a", "b">>]

Rules == {RulePunk, RuleJazz, RuleNoName, RuleNoRegex, RuleSpace}

RuleLists == UNION {[1..n -> Rules] : n \in 0..MaxRules}

Titles == UNION {[1..n -> {"P", "j", " ", "x"}] : n \in 0..MaxTitleLen}

\* configurations a DataProcessor can be built from: every alias table with
\* the rules of CfgMain, every rule list with the alias table of CfgMain
ProcessorConfigs ==
    {[kind |-> "ok", shows |-> CfgMain.shows, tag_mappings |-> t] : t \in TagTables}
    \cup {[kind |-> "ok", shows |-> r, tag_mappings |-> CfgMain.tag_mappings] :
             r \in RuleLists}

\* DataProcessor(config_path) has returned
InitProcessor ==
    /\ mode = "unit"
    /\ config \in ProcessorConfigs
    /\ ~ProcessorInitFails(config)
    /\ file = OtherFile("absent")
    /\ catalog = << <<>> >>
    /\ limit = NoLimit
    /\ processor = NewProcessor(config)
    /\ existing_data = <<>>
    /\ existing_ids = {}
    /\ new_shows = <<>>
    /\ url = 0
    /\ shows = <<>>
    /\ idx = 0
    /\ count = 0
    /\ raw_show = NoShow
    /\ via_detail = FALSE
    /\ save_data = <<>>
    /\ updated_count = 0
    /\ pc = "idle"
    /\ exit_code = NoCode
    /\ trace = NewTrace(file)
    /\ call = NoCall

\* processor.normalize_tags(tags), 253-265; no method changes the processor,
\* so a first call stands for a call at any time
CallNormalizeTags ==
    /\ mode = "unit"
    /\ call = NoCall
    /\ \E tags \in TagLists :
          call' = [op |-> "normalize_tags", arg |-> tags, of_result |-> FALSE,
                   result |-> normalize_tags(processor, tags)]
    /\ UNCHANGED <<mode, config, catalog, limit, file, locals, pc, exit_code, trace>>

\* processor.normalize_tags(r) for the list r the last call returned
CallNormalizeTagsAgain ==
    /\ mode = "unit"
    /\ call.op = "normalize_tags"
    /\ ~call.of_result
    /\ call' = [op |-> "normalize_tags", arg |-> call.result, of_result |-> TRUE,
                result |-> normalize_tags(processor, call.result)]
    /\ UNCHANGED <<mode, config, catalog, limit, file, locals, pc, exit_code, trace>>

\* processor.get_category_info(title), 175-201
CallGetCategoryInfo ==
    /\ mode = "unit"
    /\ call = NoCall
    /\ \E title \in Titles :
          call' = [op |-> "get_category_info", arg |-> title,
                   result |-> get_category_info(processor, title)]
    /\ UNCHANGED <<mode, config, catalog, limit, file, locals, pc, exit_code, trace>>

----------------------------------------------------------------------------
(* Specifications *)

Init == InitRun

Next ==
    \/ MainStart
    \/ MainLocalInit
    \/ PerformLocalUpdate
    \/ PerformFetchSetup
    \/ FetchPage
    \/ FetchItem
    \/ MainLoopBody
    \/ SaveIndexOpen
    \/ SaveIndexOpenFails
    \/ SaveIndexDump
    \/ SaveIndexDumpFails
    \/ Interrupt
    \/ Restart

\* the indexer run from the command line, in either mode
Spec == Init /\ [][Next]_vars

NextCall ==
    \/ FetchPage
    \/ FetchItem
    \/ Drive

\* fetch_shows iterated by a caller
SpecFetcher == InitCall /\ [][NextCall]_vars

\* the same with a caller that keeps iterating and requests that end: every
\* session.get carries timeout=REQUEST_TIMEOUT and the retries of the
\* session are bounded by MAX_RETRIES (fetcher.py 72-77, 125, 181)
SpecFetcherFair ==
    /\ SpecFetcher
    /\ WF_vars(FetchPage)
    /\ WF_vars(FetchItem)
    /\ WF_vars(Drive)

NextProcessor ==
    \/ CallNormalizeTags
    \/ CallNormalizeTagsAgain
    \/ CallGetCategoryInfo

\* the methods of a DataProcessor called by a client
SpecProcessor == InitProcessor /\ [][NextProcessor]_vars

----------------------------------------------------------------------------
(* Properties of fetch_shows, checked under SpecFetcher *)

Min(a, b) == IF a <= b THEN a ELSE b

FlatCatalog == Flat(catalog)

\* position in catalog order of the first item whose key is already indexed;
\* one past the end when there is none
FirstKnown ==
    LET hits == {i \in DOMAIN FlatCatalog : FlatCatalog[i] \in existing_ids}
    IN  IF hits = {} THEN Len(FlatCatalog) + 1
        ELSE CHOOSE i \in hits : \A j \in hits : i <= j

\* number of the page that holds position pos of the catalog
RECURSIVE PageOfFrom(_, _, _)
PageOfFrom(pos, n, before) ==
    IF n >= Len(catalog) \/ pos <= before + Len(catalog[n]) THEN n
    ELSE PageOfFrom(pos, n + 1, before + Len(catalog[n]))

PageOf(pos) == PageOfFrom(pos, 1, 0)

\* C1: with a non-empty set of known keys, nothing is yielded whose key is
\* known, everything yielded lies before the first known item of the catalog,
\* and no request goes beyond that item: never more detail requests than the
\* items before it, never a page after the one that holds it, and the walk
\* has returned once the item is met.
C1_StopsAtFirstKnownKey ==
    existing_ids # {} =>
        /\ \A i \in DOMAIN trace.yielded :
              /\ trace.yielded[i] \notin existing_ids
              /\ trace.yielded[i] = FlatCatalog[i]
        /\ Len(trace.yielded) < FirstKnown
        /\ trace.details <= FirstKnown - 1
        /\ FirstKnown <= Len(FlatCatalog) => trace.pages <= PageOf(FirstKnown)
        /\ trace.stop = "known" =>
              /\ pc = "returned"
              /\ trace.details = FirstKnown - 1
              /\ trace.pages = PageOf(FirstKnown)

\* C1 witness: the walk stopped at a known key after yielding an item, and a
\* page of the catalog was never requested
C1_Witness ==
    /\ pc = "returned"
    /\ trace.stop = "known"
    /\ Len(trace.yielded) >= 1
    /\ trace.pages < Len(catalog)
    /\ Len(catalog[Len(catalog)]) > 0

\* C2: with a limit N and no known keys at most N items are yielded, and
\* exactly min(N, catalog size) once the walk has returned, which it only
\* does when no page request failed.
C2_LimitBoundsYield ==
    (limit # NoLimit /\ existing_ids = {}) =>
        /\ Len(trace.yielded) <= limit
        /\ pc = "returned" => Len(trace.yielded) = Min(limit, Len(FlatCatalog))

\* C2 witness: a limit smaller than the catalog was reached
C2_Witness ==
    /\ pc = "returned"
    /\ existing_ids = {}
    /\ limit = 2
    /\ Len(FlatCatalog) = 3
    /\ Len(trace.yielded) = 2

\* C2 witness for N = 0 on a non-empty catalog
C2_WitnessZero ==
    /\ pc = "returned"
    /\ existing_ids = {}
    /\ limit = 0
    /\ Len(FlatCatalog) > 0
    /\ trace.yielded = <<>>

\* C5: every detail request, failed or not, yields exactly one record: the
\* detail record on success, the summary item on failure; the item counts
\* toward the limit; only a page failure makes the walk raise; a walk that
\* exhausts the catalog has yielded every item.
C5_DetailFailureDegrades ==
    /\ Len(trace.yielded) = trace.details
    /\ pc = "yielded" =>
          LET k == trace.yielded[Len(trace.yielded)]
          IN  /\ raw_show = IF via_detail THEN Detail(k) ELSE Summary(k)
              /\ count = Len(trace.yielded) - 1
    /\ pc = "item" => count = Len(trace.yielded)
    /\ limit # NoLimit => trace.details <= limit
    /\ pc = "raised" => trace.cause \in PageFailures
    /\ (trace.stop = "exhausted" /\ existing_ids = {} /\ limit = NoLimit)
          => trace.yielded = FlatCatalog

\* C5 witness: after a failed detail request the walk went on and yielded the
\* next item, again as a fallback
C5_Witness ==
    /\ pc = "yielded"
    /\ ~via_detail
    /\ trace.fallbacks = 2
    /\ Len(trace.yielded) = 2

\* C16: the items yielded are, position by position, the first items of
\* the concatenation of the pages in page order, each as its detail record
\* or as its summary item.
C16_YieldsInCatalogOrder ==
    /\ Len(trace.yielded) <= Len(FlatCatalog)
    /\ \A i \in DOMAIN trace.yielded : trace.yielded[i] = FlatCatalog[i]
    /\ pc = "yielded" =>
          raw_show \in {Detail(FlatCatalog[Len(trace.yielded)]),
                        Summary(FlatCatalog[Len(trace.yielded)])}

\* C16 witness: three items of a two-page catalog were yielded, the last
\* one from the second page, one as a detail record and one as a summary
C16_Witness ==
    /\ pc = "yielded"
    /\ Len(trace.yielded) = 3
    /\ trace.pages = 2
    /\ Len(catalog[1]) = 2
    /\ trace.fallbacks >= 1
    /\ trace.fallbacks < trace.details

\* C21: a request that follows a request which yielded an item, the detail
\* record or the summary fallback, is issued after at least one
\* inter-request delay.
C21_DelayAfterEveryYield ==
    trace.prev_req \in {"detail", "fallback"} => trace.gap >= 1

\* C22: once limit items have been yielded no further request is issued:
\* the listing pages requested are those up to the page of the last item
\* yielded, the detail requests are those of the items yielded, and the
\* walk does not raise.
C22_LimitIsTerminal ==
    (limit >= 1 /\ Len(trace.yielded) = limit) =>
        /\ trace.pages = PageOf(limit)
        /\ trace.details = limit
        /\ pc # "raised"

\* C23: any two consecutive requests of a walk, listing page or detail, are
\* separated by at least one rate-limit delay.
C23_DelayBetweenRequests ==
    trace.prev_req # None => trace.gap >= 1

\* C25: every walk of a finite catalog ends: it returns after exhausting
\* the pages, reaching the limit or meeting a known key, or it raises
\* FetchError for a failed page request, however many detail requests fail.
C25_FetchShowsTerminates ==
    <>(\/ pc = "returned" /\ trace.stop \in {"exhausted", "limit", "known"}
       \/ pc = "raised" /\ trace.stop = "error")

\* C25 witness: the walk exhausted a two-page catalog of three items whose
\* detail requests all failed
C25_Witness ==
    /\ pc = "returned"
    /\ trace.stop = "exhausted"
    /\ trace.pages = 2
    /\ Len(FlatCatalog) = 3
    /\ trace.fallbacks = 3

----------------------------------------------------------------------------
(* Properties of a run of main, checked under Spec *)

StartData == load_existing_index(trace.start_file)

TimeOf(x) == IF "created_time" \in DOMAIN x THEN x.created_time ELSE 0

\* C3: a fetch-mode run that starts from an index an earlier run persisted,
\* and meets no page failure, write failure or interrupt, returns the
\* success code, indexes nothing new and writes nothing.
C3_RerunOnPersistedIndex ==
    (/\ mode = "fetch"
     /\ pc = "done"
     /\ trace.start_file.by = "run"
     /\ trace.start_file.kind = "list"
     /\ trace.failure \in {None, "other"})
        => /\ exit_code = EXIT_SUCCESS
           /\ trace.indexed = 0
           /\ trace.writes = 0
           /\ file = trace.start_file

\* C4: a failed listing-page request ends the fetch-mode run with the
\* fetch-error code and the index file as it was when the run started,
\* whatever had been fetched and processed before.
C4_PageFailureKeepsIndex ==
    (mode = "fetch" /\ trace.failure = "fetch") =>
        /\ pc = "done"
        /\ trace.cause \in PageFailures
        /\ exit_code = EXIT_FETCH_ERROR
        /\ trace.writes = 0
        /\ file = trace.start_file

\* C4 witness: the second page failed after a record of the first page had
\* been processed, with a non-empty index on disk
C4_Witness ==
    /\ mode = "fetch"
    /\ pc = "done"
    /\ trace.failure = "fetch"
    /\ trace.pages = 2
    /\ trace.indexed >= 1
    /\ StartData # <<>>
    /\ exit_code = EXIT_FETCH_ERROR

\* C6: the index file is never empty or partial, and after a write error or
\* an interrupt it holds what it held when the run started.
C6_WriteAllOrNothing ==
    /\ file.kind # "partial"
    /\ (pc = "done" /\ trace.failure \in {"io", "interrupt"})
          => file = trace.start_file

\* C7: an index written by save_index is in descending order of
\* created_time, and its records without created_time come after all
\* records with a non-empty one.
C7_WrittenIndexSorted ==
    (file.by = "run" /\ file.kind = "list") =>
        \A i, j \in DOMAIN file.data :
            /\ i < j => TimeOf(file.data[i]) >= TimeOf(file.data[j])
            /\ ("created_time" \notin DOMAIN file.data[i] /\ TimeOf(file.data[j]) > 0)
                  => j < i

\* C7 witness: a local run wrote an index whose stored order had a record
\* without created_time ahead of a record with one
C7_Witness ==
    /\ mode = "local"
    /\ pc = "done"
    /\ trace.writes = 1
    /\ Len(StartData) = 2
    /\ "created_time" \notin DOMAIN StartData[1]
    /\ TimeOf(StartData[2]) > 0
    /\ Len(file.data) = 2

\* the same in fetch mode: the new record has no timestamp, the stored one has
C7_WitnessFetch ==
    /\ mode = "fetch"
    /\ pc = "done"
    /\ trace.writes = 1
    /\ Len(file.data) = 2
    /\ TimeOf(file.data[1]) = 3
    /\ "key" \notin DOMAIN file.data[2]

\* the record is one the local update loop has nothing to change in
StoredUnchanged(p, show) ==
    LET info == get_category_info(p, Get(show, "name", <<>>))
        tags == Get(show, "tags", <<>>)
    IN  /\ Get(show, "category", None) = info[1]
        /\ normalize_tags(p, tags \o info[2]) = SortedTags(Range(tags))

ConfigLoads == config.kind # "absent" /\ ~ProcessorInitFails(config)

\* C8: a local-recategorize run with a loadable configuration and an index
\* file that can be read as text, in which no stored record's category or
\* normalized tag list differs from what is stored, never opens the index
\* file for writing and returns the success code; an absent or empty index
\* is such a case.
C8_NoChangeNoWrite ==
    (/\ mode = "local"
     /\ ConfigLoads
     /\ ~LoadIndexFails(trace.start_file)
     /\ \A i \in DOMAIN StartData : StoredUnchanged(NewProcessor(config), StartData[i]))
        => /\ file = trace.start_file
           /\ trace.writes = 0
           /\ pc \notin {"save", "save_dump"}
           /\ pc = "done" => exit_code = EXIT_SUCCESS

\* C8 witness: a local run over two stored records, one of them with its
\* tags stored out of order, ended without anything to update
C8_Witness ==
    /\ mode = "local"
    /\ pc = "done"
    /\ trace.failure = None
    /\ trace.reads = 1
    /\ trace.reported = 0
    /\ Len(StartData) = 2
    /\ \E i \in DOMAIN StartData : StartData[i].tags = <<"a", "B">>
    /\ exit_code = EXIT_SUCCESS

\* the absent index
C8_WitnessAbsent ==
    /\ mode = "local"
    /\ pc = "done"
    /\ trace.failure = None
    /\ trace.reads = 1
    /\ trace.start_file.kind = "absent"
    /\ exit_code = EXIT_SUCCESS

\* C9: the number of updates a local run reports is the number of records
\* it changed, and a record it did not change is written back as loaded.
C9_ReportedCountsRecords ==
    (mode = "local" /\ trace.reported >= 0) =>
        /\ trace.reported = trace.changed
        /\ (pc = "done" /\ trace.writes = 1) =>
              \A i \in DOMAIN StartData :
                  StoredUnchanged(NewProcessor(config), StartData[i])
                      => \E j \in DOMAIN file.data : file.data[j] = StartData[i]

\* the exit code the failure class of a run stands for
CodeOf(class) ==
    CASE class = "config" -> EXIT_CONFIG_ERROR
      [] class = "fetch"  -> EXIT_FETCH_ERROR
      [] class = "io"     -> EXIT_IO_ERROR
      [] class = "other"  -> EXIT_PROCESSING_ERROR
      [] OTHER            -> EXIT_SUCCESS

\* C10: in both modes the exit code is the one of the failure class that
\* ended the run: 1 configuration, 2 fetch, 4 index write, 3 any other,
\* 0 without a failure.
C10_ExitCodePerFailureClass ==
    pc = "done" => exit_code = CodeOf(trace.failure)

\* what does hold of C10: the codes of fetch mode
C10_FetchModeCodes ==
    (pc = "done" /\ mode = "fetch") => exit_code = CodeOf(trace.failure)

\* the keys, among those yielded, of the records that pass validation
ValidYielded == SelectSeq(trace.yielded, LAMBDA k : ~ValidateFails(Summary(k)))

\* what process_show makes of show k, yielded as detail record or as summary
ProcessedOf(k) ==
    {process_show(NewProcessor(config), Detail(k)),
     process_show(NewProcessor(config), Summary(k))}

C15_InterruptLeavesValidIndex ==
    (pc = "done" /\ trace.failure = "interrupt") =>
        /\ exit_code = EXIT_SUCCESS
        /\ \/ file = trace.start_file
           \/ file.kind = "list" /\ file.by = "run"

\* C17: a run that finds anything but a JSON array at the index path does
\* not fail for it: no exception leaves the load, fetch mode goes on with
\* an empty index and no known key, local mode returns the success code.
C17_LoadNeverFailsRun ==
    trace.start_file.kind # "list" =>
        /\ trace.failure # "other"
        /\ pc \in {"page", "item", "yielded"} =>
              existing_data = <<>> /\ existing_ids = {}
        /\ (mode = "local" /\ pc = "done" /\ ConfigLoads
                /\ trace.failure # "interrupt") => exit_code = EXIT_SUCCESS

\* the rules of the configuration that have a name and a pattern
UsableRules == {i \in DOMAIN config.shows :
                  /\ Get(config.shows[i], "name", "") # ""
                  /\ Get(config.shows[i], "regex", <<>>) # <<>>}

\* the configuration file is missing or not a JSON object, its "shows" is
\* missing or not an array, or a rule's pattern does not compile
ConfigBroken == config.kind # "ok" \/ CompilePatternsFails(config)

\* C18: a fetch-mode run with a broken configuration issues no request and
\* writes nothing: it ends, with the configuration-error code when the
\* configuration error is what ended it, and never with the success code
\* unless interrupted.  With a configuration whose only defect is rules
\* without a name or a pattern the run is not aborted for it and the
\* processor holds the other rules.
C18_ConfigErrorAbortsBeforeFetch ==
    mode = "fetch" =>
        /\ ConfigBroken =>
              /\ trace.pages = 0 /\ trace.details = 0 /\ trace.writes = 0
              /\ file = trace.start_file
              /\ pc \in {"start", "fetch_setup", "done"}
              /\ trace.failure = "config" => exit_code = EXIT_CONFIG_ERROR
              /\ (pc = "done" /\ trace.failure # "interrupt")
                    => exit_code # EXIT_SUCCESS
        /\ ~ConfigBroken =>
              /\ trace.failure # "config"
              /\ pc \in {"page", "item", "yielded"} =>
                    Len(processor.patterns) = Cardinality(UsableRules)

\* C18 witness: a rule with an unparsable pattern ended the run with the
\* configuration-error code although the catalog had shows to fetch
C18_Witness ==
    /\ mode = "fetch"
    /\ pc = "done"
    /\ config.kind = "ok"
    /\ CompilePatternsFails(config)
    /\ Flat(catalog) # <<>>
    /\ trace.reads = 1
    /\ trace.pages = 0
    /\ exit_code = EXIT_CONFIG_ERROR

\* C18 witness: "shows" is missing
C18_WitnessNoShows ==
    /\ mode = "fetch"
    /\ pc = "done"
    /\ config.kind = "no_shows"
    /\ Flat(catalog) # <<>>
    /\ exit_code = EXIT_CONFIG_ERROR

\* C18 witness: a run whose configuration has a rule without a name fetched
\* and wrote an index
C18_WitnessSkippedRule ==
    /\ mode = "fetch"
    /\ pc = "done"
    /\ Cardinality(UsableRules) < Len(config.shows)
    /\ trace.pages >= 1
    /\ trace.writes = 1
    /\ exit_code = EXIT_SUCCESS

\* C19: a fetch-mode run opens the index file for writing only after it
\* has processed a new record; a run that meets no page failure, write
\* failure or interrupt returns the success code and has written the file
\* exactly when it processed at least one new record, leaving the file as
\* it found it otherwise.
C19_WriteIffNewRecord ==
    mode = "fetch" =>
        /\ pc \in {"save", "save_dump"} => trace.indexed >= 1
        /\ (trace.writes >= 1 \/ file # trace.start_file) => trace.indexed >= 1
        /\ (pc = "done" /\ trace.failure = None) =>
              /\ exit_code = EXIT_SUCCESS
              /\ trace.writes = 1 <=> trace.indexed >= 1
              /\ trace.indexed = 0 => file = trace.start_file

\* C19 witness: every record the fetcher yielded failed processing; nothing
\* was written and the run returned 0
C19_Witness ==
    /\ mode = "fetch"
    /\ pc = "done"
    /\ trace.failure = None
    /\ trace.yielded # <<>>
    /\ trace.indexed = 0
    /\ trace.writes = 0
    /\ StartData # <<>>
    /\ exit_code = EXIT_SUCCESS

\* C19 witness: the fetcher yielded nothing from a catalog that has shows
C19_WitnessNothingYielded ==
    /\ mode = "fetch"
    /\ pc = "done"
    /\ trace.failure = None
    /\ trace.pages >= 1
    /\ Flat(catalog) # <<>>
    /\ trace.yielded = <<>>
    /\ trace.writes = 0
    /\ exit_code = EXIT_SUCCESS

\* C19 witness: one new record among two yielded, and the file was written
C19_WitnessWritten ==
    /\ mode = "fetch"
    /\ pc = "done"
    /\ trace.failure = None
    /\ Len(trace.yielded) = 2
    /\ trace.indexed = 1
    /\ trace.writes = 1
    /\ file # trace.start_file

\* the record has the category its title gets under the configuration and a
\* strictly ascending tag list
Categorized(r) ==
    /\ "category" \in DOMAIN r
    /\ r.category = get_category_info(NewProcessor(config), Get(r, "name", <<>>))[1]
    /\ "tags" \in DOMAIN r
    /\ \A i, j \in DOMAIN r.tags : i < j => TagCode(r.tags[i]) < TagCode(r.tags[j])

\* C20: every record process_show returned in a fetch-mode run, and every
\* record of an index written by a local-recategorize run that the run
\* changed, has the category of its title and a sorted, duplicate-free tag
\* list.
C20_RecordsCategorizedSortedTags ==
    /\ mode = "fetch" => \A i \in DOMAIN new_shows : Categorized(new_shows[i])
    /\ (mode = "local" /\ file.by = "run" /\ file.kind = "list") =>
          \A i \in DOMAIN file.data :
              file.data[i] \notin Range(StartData) => Categorized(file.data[i])

\* the run has got past the load of the index
PastLoad ==
    \/ pc \in {"page", "item", "yielded", "save", "save_dump"}
    \/ trace.pages > 0 \/ trace.details > 0 \/ trace.indexed > 0
    \/ trace.reported >= 0 \/ trace.writes > 0 \/ file # trace.start_file

\* from the call of save_index on, nothing is read, requested or processed
\* and the run only ends
WriteIsLast ==
    pc \in {"save", "save_dump"} =>
        /\ pc' \in {"save_dump", "done"}
        /\ trace'.reads = trace.reads
        /\ trace'.pages = trace.pages
        /\ trace'.details = trace.details
        /\ trace'.indexed = trace.indexed

\* C24: in either mode the index file is read at most once, and exactly
\* once by the time anything is requested, processed, reported or written;
\* it is written at most once, the run has ended when the write is
\* complete, and once save_index is called nothing is read, requested or
\* processed any more.
C24_ReadOnceWriteLast ==
    /\ [](/\ trace.reads <= 1
          /\ PastLoad => trace.reads = 1
          /\ (pc = "done" /\ trace.failure \in {None, "fetch", "io"}) => trace.reads = 1
          /\ trace.writes <= 1
          /\ trace.writes = 1 => pc = "done")
    /\ [][WriteIsLast]_vars

\* C24 witness: a fetch-mode run that requested two pages and two detail
\* records ended with its one read and its one write
C24_Witness ==
    /\ mode = "fetch"
    /\ pc = "done"
    /\ trace.reads = 1
    /\ trace.pages = 2
    /\ trace.details = 2
    /\ trace.writes = 1
    /\ StartData # <<>>

\* C24 witness: the same for a local-recategorize run
C24_WitnessLocal ==
    /\ mode = "local"
    /\ pc = "done"
    /\ trace.reads = 1
    /\ trace.writes = 1
    /\ trace.reported >= 1

\* C26: a local-recategorize run that starts from the index the previous
\* local-recategorize run wrote, with the same configuration, finds no
\* record to change and does not write.
C26_LocalUpdateConverges ==
    (/\ mode = "local"
     /\ trace.start_file.by = "run"
     /\ trace.start_file.kind = "list") =>
        /\ trace.reported <= 0
        /\ trace.writes = 0
        /\ pc \notin {"save", "save_dump"}
        /\ file = trace.start_file

\* the number of times record r occurs in the list s
Count(s, r) == Cardinality({i \in DOMAIN s : s[i] = r})

\* C27: what a fetch-mode run is about to dump is the loaded records and
\* the records it processed, each as often as it occurs in the two lists and
\* with every field as loaded or as processed; the index it has written has
\* as many records as were loaded and newly processed together and holds
\* every loaded record at least as often as it was loaded.
C27_WriteKeepsPriorRecords ==
    mode = "fetch" =>
        /\ pc = "save_dump" =>
              /\ existing_data = StartData
              /\ Len(new_shows) = trace.indexed
              /\ Len(save_data) = Len(StartData) + trace.indexed
              /\ \A r \in Range(save_data) \cup Range(new_shows) \cup Range(StartData) :
                    Count(save_data, r) = Count(new_shows, r) + Count(StartData, r)
        /\ (pc = "done" /\ trace.writes = 1) =>
              /\ file.kind = "list"
              /\ Len(file.data) = Len(StartData) + trace.indexed
              /\ \A r \in Range(StartData) : Count(file.data, r) >= Count(StartData, r)

\* C27 witness: a run wrote one new record next to two loaded records that
\* are equal to each other
C27_Witness ==
    /\ mode = "fetch"
    /\ pc = "done"
    /\ trace.writes = 1
    /\ trace.indexed = 1
    /\ Len(StartData) = 2
    /\ StartData[1] = StartData[2]
    /\ Len(file.data) = 3

----------------------------------------------------------------------------
(* Properties of the DataProcessor methods, checked under SpecProcessor *)

\* C11: normalize_tags applied to a list that normalize_tags returned
\* returns that list, whatever the alias table, tables in which a canonical
\* value is itself an alias key included.
C11_NormalizeTagsIdempotent ==
    (call.op = "normalize_tags" /\ call.of_result) => call.result = call.arg

\* C12: normalize_tags returns a strictly ascending list, hence sorted and
\* without duplicates, whose elements are exactly the normalize_tag images
\* of the input tags; the empty list gives the empty list; a list made of
\* case variants of one alias key gives a single tag, the canonical value of
\* an entry with that key.
C12_NormalizeTagsSortedSet ==
    call.op = "normalize_tags" =>
        LET tags == call.arg
            out  == call.result
            tbl  == processor.tag_mappings
        IN  /\ \A i, j \in DOMAIN out : i < j => TagCode(out[i]) < TagCode(out[j])
            /\ Range(out) = {normalize_tag(processor, tags[i]) : i \in DOMAIN tags}
            /\ tags = <<>> => out = <<>>
            /\ \A k \in DOMAIN tbl :
                  (/\ tags # <<>>
                   /\ tbl[k][1] # ""
                   /\ \A i \in DOMAIN tags : /\ tags[i] # ""
                                              /\ TagLower(tags[i]) = TagLower(tbl[k][1]))
                      => /\ Len(out) = 1
                         /\ \E m \in DOMAIN tbl :
                               /\ TagLower(tbl[m][1]) = TagLower(tbl[k][1])
                               /\ out[1] = tbl[m][2]

\* C12 witness: two case variants of one alias key collapsed to its canonical
\* value
C12_Witness ==
    /\ call.op = "normalize_tags"
    /\ ~call.of_result
    /\ call.arg = <<"a", "A">>
    /\ processor.tag_mappings = << <<"A", "C">> >>
    /\ call.result = <<"C">>

\* C12 witness: two distinct unmapped tags given in descending order came
\* back in ascending order
C12_WitnessSorted ==
    /\ call.op = "normalize_tags"
    /\ call.arg = <<"c", "C">>
    /\ call.result = <<"C", "c">>

\* C13: get_category_info returns the name and the extra tags of the first
\* rule of the configuration, among those with a name and a pattern, whose
\* pattern is found in the title, and the default category with no extra
\* tags when the title is empty or no such rule matches.
C13_FirstMatchingRuleWins ==
    call.op = "get_category_info" =>
        LET title == call.arg
            rules == config.shows
            found == {i \in DOMAIN rules :
                        /\ Get(rules[i], "name", "") # ""
                        /\ Get(rules[i], "regex", <<>>) # <<>>
                        /\ Search(rules[i].regex, title)}
        IN  IF title = <<>> \/ found = {}
            THEN call.result = <<DEFAULT_CATEGORY, <<>> >>
            ELSE LET a == CHOOSE i \in found : \A j \in found : i <= j
                 IN  call.result = <<rules[a].name, Get(rules[a], "extra_tags", <<>>)>>

\* C13 witness: two rules match the title and the first one's category and
\* extra tags came back, which are not the second one's
C13_Witness ==
    /\ call.op = "get_category_info"
    /\ Len(config.shows) = 2
    /\ \A i \in {1, 2} : /\ "name" \in DOMAIN config.shows[i]
                          /\ "regex" \in DOMAIN config.shows[i]
                          /\ Search(config.shows[i].regex, call.arg)
    /\ config.shows[1].name # config.shows[2].name
    /\ call.result[1] = config.shows[1].name
    /\ call.result[2] # Get(config.shows[2], "extra_tags", <<>>)

\* C13 witness: a non-empty title no rule matches got the default category
C13_WitnessDefault ==
    /\ call.op = "get_category_info"
    /\ call.arg # <<>>
    /\ processor.patterns # <<>>
    /\ call.result = <<DEFAULT_CATEGORY, <<>> >>

====
